---- MODULE Spec2Model ----
(***************************************************************************)
(* Folding of inherited members (hackrs folded_decl_provider/inherit.rs).  *)
(*                                                                         *)
(* The module models                                                       *)
(*   - the aggregate `Inherited` with its per-category merge rules         *)
(*     (add_substs, add_props, add_methods, add_constructor, add_consts,   *)
(*     add_type_consts, add_inherited, mark_as_synthesized), and           *)
(*   - the `MemberFolder` driven by `Inherited::make`, one step per        *)
(*     relationship reference of the child, in the order of `make`.        *)
(*                                                                         *)
(* Maps (IndexMap) are functions whose DOMAIN is the key set; Option is    *)
(* <<>> (None) or <<x>> (Some(x)).                                         *)
(***************************************************************************)
EXTENDS Integers, Sequences, FiniteSets, TLC

VARIABLES
    child,      \* the ShallowClass being folded (input of make)
    members,    \* MemberFolder.members : the Inherited aggregate
    pc,         \* position of make: a phase name, "ok", "err", or "absorb"
    idx,        \* index of the next reference in the current phase's list
    deps,       \* calls received by the dependency registrar, in order
    hist        \* the contributions absorbed so far, in order

vars == <<child, members, pc, idx, deps, hist>>

None == <<>>
Some(x) == <<x>>

EmptyMap == [k \in {} |-> None]

(***************************************************************************)
(* Bounds of the model.                                                    *)
(***************************************************************************)
\* number of absorptions in one behaviour of SpecAbsorb
MaxAbsorb == 3
\* total number of relationship references of the child in Spec
MaxRels == 2

(***************************************************************************)
(* Members.                                                                *)
(***************************************************************************)
Public == <<"Public">>
Protected(owner) == <<"Protected", owner>>
Private(owner) == <<"Private", owner>>

\* ty::decl::FoldedElement : visibility, origin and the flags read here
Elt(vis, abs, syn, sup, lsb, xhp, origin) ==
    [visibility |-> vis, abstract |-> abs, synthesized |-> syn,
     superfluous_override |-> sup, lsb |-> lsb, xhp_attr |-> xhp,
     origin |-> origin]

CCAbstract(has_default) == <<"CCAbstract", has_default>>
CCConcrete == <<"CCConcrete">>

\* ty::decl::ClassConst
Const(syn, kind, ty, origin) ==
    [is_synthesized |-> syn, kind |-> kind, ty |-> ty, origin |-> origin]

\* Typeconst::TCAbstract(AbstractTypeconst { default, .. }) and TCConcrete
TCAbstract(default) == <<"TCAbstract", default>>
TCConcrete(ty) == <<"TCConcrete", ty>>

\* ty::decl::TypeConst ; enforceable is Option<Pos>
TConst(syn, kind, enforceable, origin) ==
    [is_synthesized |-> syn, kind |-> kind, enforceable |-> enforceable,
     origin |-> origin]

is_enforceable(tc) == tc.enforceable # None

\* ty::decl::SubstContext
SubstCtx(subst, class_context, from_req_extends) ==
    [subst |-> subst, class_context |-> class_context,
     from_req_extends |-> from_req_extends]

Ctor(elt, consistency) == [elt |-> elt, consistency |-> consistency]

\* ConsistentKind::coalesce : the more consistent of the two markers
ConsistencyRank(k) ==
    CASE k = "Inconsistent" -> 0
      [] k = "ConsistentConstruct" -> 1
      [] k = "FinalClass" -> 2

coalesce(k1, k2) == IF ConsistencyRank(k1) >= ConsistencyRank(k2) THEN k1 ELSE k2

(***************************************************************************)
(* The aggregate.                                                          *)
(***************************************************************************)
\* mutant: the default constructor is marked consistent
DefaultInheritedConsistent ==
    [substs |-> EmptyMap, props |-> EmptyMap, static_props |-> EmptyMap,
     methods |-> EmptyMap, static_methods |-> EmptyMap,
     constructor |-> Ctor(None, "ConsistentConstruct"),
     consts |-> EmptyMap, type_consts |-> EmptyMap]

\* impl Default for Inherited
DefaultInherited ==
    [substs |-> EmptyMap, props |-> EmptyMap, static_props |-> EmptyMap,
     methods |-> EmptyMap, static_methods |-> EmptyMap,
     constructor |-> Ctor(None, "Inconsistent"),
     consts |-> EmptyMap, type_consts |-> EmptyMap]

\* indexmap entry(): insert when vacant, F(old, new) when occupied
Upsert(self, other, F(_, _)) ==
    [k \in (DOMAIN self) \cup (DOMAIN other) |->
        IF k \notin DOMAIN other THEN self[k]
        ELSE IF k \notin DOMAIN self THEN other[k]
        ELSE F(self[k], other[k])]

\* mutant: the synthesized flag is consulted before abstractness
should_keep_old_sig_synthesized_first(new_sig, old_sig) ==
    \/ ~old_sig.synthesized /\ new_sig.synthesized
    \/ /\ old_sig.synthesized = new_sig.synthesized
       /\ ~old_sig.abstract
       /\ new_sig.abstract

should_keep_old_sig(new_sig, old_sig) ==
    \/ ~old_sig.abstract /\ new_sig.abstract
    \/ /\ old_sig.abstract = new_sig.abstract
       /\ ~old_sig.synthesized
       /\ new_sig.synthesized

\* mutant: the incoming consistency marker replaces the held one
add_constructor_takes_marker(self_ctor, constructor) ==
    LET elt == IF constructor.elt = None THEN self_ctor.elt
               ELSE IF /\ self_ctor.elt # None
                       /\ should_keep_old_sig(constructor.elt[1], self_ctor.elt[1])
                    THEN self_ctor.elt
               ELSE constructor.elt
    IN  Ctor(elt, constructor.consistency)

add_constructor(self_ctor, constructor) ==
    LET elt == IF constructor.elt = None THEN self_ctor.elt
               ELSE IF /\ self_ctor.elt # None
                       /\ should_keep_old_sig(constructor.elt[1], self_ctor.elt[1])
                    THEN self_ctor.elt
               ELSE constructor.elt
    IN  Ctor(elt, coalesce(self_ctor.consistency, constructor.consistency))

\* mutant: a required context also replaces a required one
merge_subst_req_replaced(old_sc, new_sc) ==
    IF old_sc.from_req_extends THEN new_sc ELSE old_sc

\* mutant: the flags are not consulted, the first context stays
merge_subst_first_stays(old_sc, new_sc) == old_sc

merge_subst(old_sc, new_sc) ==
    IF old_sc.from_req_extends /\ ~new_sc.from_req_extends THEN new_sc ELSE old_sc

add_substs(self_substs, other_substs) ==
    Upsert(self_substs, other_substs, merge_subst)

\* mutant: the winning member keeps its superfluous_override flag
add_method_keeps_flag(old_fe, fe) ==
    IF ~should_keep_old_sig(fe, old_fe) THEN fe ELSE old_fe

\* the Occupied arm of add_method
add_method(old_fe, fe) ==
    IF ~should_keep_old_sig(fe, old_fe)
    THEN [fe EXCEPT !.superfluous_override = FALSE]
    ELSE old_fe

add_methods(self_methods, other_methods) ==
    Upsert(self_methods, other_methods, add_method)

add_static_methods(self_static_methods, other_static_methods) ==
    Upsert(self_static_methods, other_static_methods, add_method)

\* mutant: properties are resolved as methods are
overwrite_resolves(old, new) == add_method(old, new)

overwrite(old, new) == new

\* mutant: the incoming map takes the place of the held one
add_props_replaces_map(self_props, other_props) == other_props

\* IndexMap::extend : later insertion overwrites
add_props(self_props, other_props) ==
    Upsert(self_props, other_props, overwrite)

add_static_props(self_static_props, other_static_props) ==
    Upsert(self_static_props, other_static_props, overwrite)

\* mutant: an abstract constant replaces a concrete one
merge_const_abstract_replaces(old_const, new_const) ==
    IF new_const.is_synthesized /\ ~old_const.is_synthesized THEN old_const
    ELSE new_const

\* the Occupied arm of add_consts
merge_const(old_const, new_const) ==
    IF new_const.is_synthesized /\ ~old_const.is_synthesized THEN old_const
    ELSE IF new_const.kind[1] = "CCAbstract" /\ old_const.kind[1] = "CCConcrete"
         THEN old_const
    ELSE new_const

add_consts(self_consts, other_consts) ==
    Upsert(self_consts, other_consts, merge_const)

\* mutant: a replacing definition does not inherit the enforceable marker
merge_type_const_drops_enforceable(old0, new_const) ==
    LET old_const ==
            IF is_enforceable(new_const) /\ ~is_enforceable(old0)
            THEN [old0 EXCEPT !.enforceable = new_const.enforceable]
            ELSE old0
    IN  IF old_const.kind[1] = "TCConcrete" /\ new_const.kind[1] = "TCAbstract"
        THEN old_const
        ELSE IF /\ old_const.kind[1] = "TCAbstract"
                /\ new_const.kind[1] = "TCAbstract"
                /\ old_const.kind[2] # None
                /\ new_const.kind[2] = None
             THEN old_const
        ELSE new_const

\* mutant: a bare abstract type constant replaces one with a default
merge_type_const_no_default_rule(old0, new_const) ==
    LET old_const ==
            IF is_enforceable(new_const) /\ ~is_enforceable(old0)
            THEN [old0 EXCEPT !.enforceable = new_const.enforceable]
            ELSE old0
    IN  IF old_const.kind[1] = "TCConcrete" /\ new_const.kind[1] = "TCAbstract"
        THEN old_const
        ELSE IF is_enforceable(old_const) /\ ~is_enforceable(new_const)
             THEN [new_const EXCEPT !.enforceable = old_const.enforceable]
             ELSE new_const

\* the Occupied arm of add_type_consts
merge_type_const(old0, new_const) ==
    LET old_const ==
            IF is_enforceable(new_const) /\ ~is_enforceable(old0)
            THEN [old0 EXCEPT !.enforceable = new_const.enforceable]
            ELSE old0
    IN  IF old_const.kind[1] = "TCConcrete" /\ new_const.kind[1] = "TCAbstract"
        THEN old_const
        ELSE IF /\ old_const.kind[1] = "TCAbstract"
                /\ new_const.kind[1] = "TCAbstract"
                /\ old_const.kind[2] # None
                /\ new_const.kind[2] = None
             THEN old_const
        ELSE IF is_enforceable(old_const) /\ ~is_enforceable(new_const)
             THEN [new_const EXCEPT !.enforceable = old_const.enforceable]
             ELSE new_const

add_type_consts(self_type_consts, other_type_consts) ==
    Upsert(self_type_consts, other_type_consts, merge_type_const)

add_inherited(self, other) ==
    [substs |-> add_substs(self.substs, other.substs),
     props |-> add_props(self.props, other.props),
     static_props |-> add_static_props(self.static_props, other.static_props),
     methods |-> add_methods(self.methods, other.methods),
     static_methods |-> add_static_methods(self.static_methods, other.static_methods),
     constructor |-> add_constructor(self.constructor, other.constructor),
     consts |-> add_consts(self.consts, other.consts),
     type_consts |-> add_type_consts(self.type_consts, other.type_consts)]

set_is_synthesized(m) == [k \in DOMAIN m |-> [m[k] EXCEPT !.synthesized = TRUE]]

set_const_is_synthesized(m) == [k \in DOMAIN m |-> [m[k] EXCEPT !.is_synthesized = TRUE]]

\* mutant: the members are marked, the contexts and the constructor are not
mark_as_synthesized_members_only(inh) ==
    [substs |-> inh.substs,
     props |-> set_is_synthesized(inh.props),
     static_props |-> set_is_synthesized(inh.static_props),
     methods |-> set_is_synthesized(inh.methods),
     static_methods |-> set_is_synthesized(inh.static_methods),
     constructor |-> inh.constructor,
     consts |-> set_const_is_synthesized(inh.consts),
     type_consts |-> set_const_is_synthesized(inh.type_consts)]

\* mutant: the contribution of a requirement is absorbed unmarked
mark_as_synthesized_noop(inh) == inh

mark_as_synthesized(inh) ==
    [substs |-> [k \in DOMAIN inh.substs |->
                    [inh.substs[k] EXCEPT !.from_req_extends = TRUE]],
     props |-> set_is_synthesized(inh.props),
     static_props |-> set_is_synthesized(inh.static_props),
     methods |-> set_is_synthesized(inh.methods),
     static_methods |-> set_is_synthesized(inh.static_methods),
     constructor |-> Ctor(set_is_synthesized(inh.constructor.elt),
                          inh.constructor.consistency),
     consts |-> set_const_is_synthesized(inh.consts),
     type_consts |-> set_const_is_synthesized(inh.type_consts)]

(***************************************************************************)
(* SpecAbsorb: the aggregate absorbs an arbitrary sequence of              *)
(* contributions.  A contribution is the Inherited set of one contributor  *)
(* class, described by                                                     *)
(*   a : its method f, constructor and constant K are abstract             *)
(*   s : its members are synthesized, its context is from_req_extends      *)
(*   t : the kind of its type constant TC                                  *)
(*   e : TC is enforceable; it has a constructor element; its methods are  *)
(*       not flagged superfluous_override                                  *)
(* so that every pair (existing, incoming) of every merge rule occurs.     *)
(***************************************************************************)
TCKinds == {"concrete", "absdef", "abs"}

Contributors == [a : BOOLEAN, s : BOOLEAN, t : TCKinds, e : BOOLEAN]

\* the contributor's class name: distinct contributors have distinct names
ContributorName(c) ==
    (IF c.a THEN "A" ELSE "C") \o (IF c.s THEN "s" ELSE "r")
        \o (CASE c.t = "concrete" -> "c" [] c.t = "absdef" -> "d" [] c.t = "abs" -> "n")
        \o (IF c.e THEN "e" ELSE "u")

ContributionOf(c) ==
    LET n == ContributorName(c)
        fe(vis) == Elt(vis, c.a, c.s, ~c.e, FALSE, FALSE, n)
    IN  [substs |-> [k \in {"Base"} |-> SubstCtx([T |-> n], n, c.s)],
         props |-> [k \in (IF c.a THEN {"p", "q"} ELSE {"p"}) |-> fe(Public)],
         static_props |-> [k \in (IF c.s THEN {"sp"} ELSE {}) |-> fe(Protected(n))],
         methods |-> [k \in {"f"} |-> fe(Public)],
         static_methods |-> [k \in (IF c.t = "abs" THEN {} ELSE {"sf"}) |-> fe(Protected(n))],
         constructor |-> Ctor(IF c.e THEN Some(fe(Public)) ELSE None,
                              CASE c.t = "concrete" -> "FinalClass"
                                [] c.t = "absdef" -> "ConsistentConstruct"
                                [] c.t = "abs" -> "Inconsistent"),
         consts |-> [k \in {"K"} |->
                        Const(c.s, IF c.a THEN CCAbstract(c.e) ELSE CCConcrete, "int", n)],
         type_consts |-> [k \in {"TC"} |->
                        TConst(c.s,
                               CASE c.t = "concrete" -> TCConcrete(n)
                                 [] c.t = "absdef" -> TCAbstract(Some(n))
                                 [] c.t = "abs" -> TCAbstract(None),
                               IF c.e THEN Some(n) ELSE None, n)]]

\* the contributions, tabulated
Contributions == [c \in Contributors |-> ContributionOf(c)]

Contribution(c) == Contributions[c]

NoChild == [name |-> "Child"]

InitAbsorb ==
    /\ child = NoChild
    /\ members = DefaultInherited
    /\ pc = "absorb"
    /\ idx = 0
    /\ deps = <<>>
    /\ hist = <<>>

\* Inherited::add_inherited applied to one more contribution
Absorb ==
    /\ pc = "absorb"
    /\ Len(hist) < MaxAbsorb
    /\ \E c \in Contributors :
        /\ members' = add_inherited(members, Contribution(c))
        /\ hist' = Append(hist, [c |-> c, inh |-> Contribution(c)])
    /\ UNCHANGED <<child, pc, idx, deps>>

NextAbsorb == Absorb

SpecAbsorb == InitAbsorb /\ [][NextAbsorb]_vars

(***************************************************************************)
(* The member folder.                                                      *)
(***************************************************************************)
\* ClassishKind
Cclass(abstraction) == <<"Cclass", abstraction>>
Cinterface == <<"Cinterface">>
Ctrait == <<"Ctrait">>
Cenum == <<"Cenum">>
CenumClass(abstraction) == <<"CenumClass", abstraction>>

\* DeclTy : a class type with its type arguments, or a type that is no class
Tapply(name, targs) == <<"Tapply", name, targs>>
Tmixed == <<"Tmixed">>

\* DeclTy::unwrap_class_type
unwrap_class_type(ty) ==
    IF ty[1] = "Tapply" THEN Some([id |-> ty[2], tyl |-> ty[3]]) ELSE None

\* Subst::new : the declared type parameters zipped with the type arguments
SubstNew(tparams, targs) ==
    LET n == IF Len(tparams) <= Len(targs) THEN Len(tparams) ELSE Len(targs)
    IN  [x \in {tparams[i] : i \in 1..n} |->
            targs[CHOOSE i \in 1..n : tparams[i] = x]]

\* Substitution::instantiate on a type: a bound type parameter is replaced
Instantiate(subst, ty) == IF ty \in DOMAIN subst THEN subst[ty] ELSE ty

instantiate_class_const(subst, cc) == [cc EXCEPT !.ty = Instantiate(subst, cc.ty)]

instantiate_type_const(subst, tc) ==
    [tc EXCEPT !.kind =
        IF tc.kind[1] = "TCConcrete" THEN TCConcrete(Instantiate(subst, tc.kind[2]))
        ELSE IF tc.kind[2] = None THEN tc.kind
        ELSE TCAbstract(Some(Instantiate(subst, tc.kind[2][1])))]

\* mutant: nothing is filtered
is_not_private_keeps_all(elt) == TRUE

is_not_private(elt) ==
    IF elt.visibility[1] = "Private" THEN elt.lsb ELSE TRUE

\* mutant: a synthesized protected member changes owner too
chown_synthesized_too(elt, owner) ==
    IF elt.visibility[1] = "Private"
    THEN [elt EXCEPT !.visibility = Private(owner)]
    ELSE IF elt.visibility[1] = "Protected"
         THEN [elt EXCEPT !.visibility = Protected(owner)]
    ELSE elt

chown(elt, owner) ==
    IF elt.visibility[1] = "Private"
    THEN [elt EXCEPT !.visibility = Private(owner)]
    ELSE IF elt.visibility[1] = "Protected" /\ ~elt.synthesized
         THEN [elt EXCEPT !.visibility = Protected(owner)]
    ELSE elt

\* iter().map(|(k, v)| (*k, chown(v.clone(), child)))
chown_all(m, owner) == [k \in DOMAIN m |-> chown(m[k], owner)]

\* iter().filter(is_not_private)
filter_not_private(m) == [k \in {x \in DOMAIN m : is_not_private(m[x])} |-> m[k]]

instantiate_consts(subst, m) == [k \in DOMAIN m |-> instantiate_class_const(subst, m[k])]

instantiate_type_consts(subst, m) == [k \in DOMAIN m |-> instantiate_type_const(subst, m[k])]

\* a call of DependencyRegistrar::add_dependency
DepCall(dependent, dependency) == [dependent |-> dependent, dependency |-> dependency]

\* The result of an extraction: the Inherited set, and the registrar call it
\* makes before returning (None when it makes none).
Extracted(inh, dep) == [inh |-> inh, dep |-> dep]

\* mutant: an entry the ancestor's map has under its own name stays
members_from_class_own_entry_stays(c, parents, parent_ty) ==
    LET u == unwrap_class_type(parent_ty)
    IN  IF u = None \/ u[1].id \notin DOMAIN parents
        THEN Extracted(DefaultInherited, None)
        ELSE
        LET parent_folded_decl == parents[u[1].id]
            sig == SubstNew(parent_folded_decl.tparams, u[1].tyl)
            consts == instantiate_consts(sig, parent_folded_decl.consts)
            type_consts == instantiate_type_consts(sig, parent_folded_decl.type_consts)
            kind == parent_folded_decl.kind[1]
            parent_inh ==
                IF kind = "Ctrait"
                THEN [DefaultInherited EXCEPT
                        !.consts = consts,
                        !.type_consts = type_consts,
                        !.props = chown_all(parent_folded_decl.props, c.name),
                        !.static_props = chown_all(parent_folded_decl.static_props, c.name),
                        !.methods = chown_all(parent_folded_decl.methods, c.name),
                        !.static_methods = chown_all(parent_folded_decl.static_methods, c.name)]
                ELSE IF kind \in {"Cclass", "Cinterface"}
                THEN [DefaultInherited EXCEPT
                        !.consts = consts,
                        !.type_consts = type_consts,
                        !.props = filter_not_private(parent_folded_decl.props),
                        !.static_props = filter_not_private(parent_folded_decl.static_props),
                        !.methods = filter_not_private(parent_folded_decl.methods),
                        !.static_methods = filter_not_private(parent_folded_decl.static_methods)]
                ELSE [DefaultInherited EXCEPT
                        !.consts = consts,
                        !.type_consts = type_consts,
                        !.props = parent_folded_decl.props,
                        !.static_props = parent_folded_decl.static_props,
                        !.methods = parent_folded_decl.methods,
                        !.static_methods = parent_folded_decl.static_methods]
            new_sc == SubstCtx(sig, c.name, FALSE)
            substs == [k \in (DOMAIN parent_folded_decl.substs) \cup {parent_folded_decl.name} |->
                        IF k \notin DOMAIN parent_folded_decl.substs THEN new_sc
                        ELSE parent_folded_decl.substs[k]]
        IN  Extracted([parent_inh EXCEPT !.substs = substs,
                                         !.constructor = parent_folded_decl.constructor],
                      IF ~parent_folded_decl.is_hhi
                      THEN Some(DepCall(<<"Type", c.name>>,
                                        <<"Constructor", parent_folded_decl.name>>))
                      ELSE None)

members_from_class(c, parents, parent_ty) ==
    LET u == unwrap_class_type(parent_ty)
    IN  IF u = None \/ u[1].id \notin DOMAIN parents
        THEN Extracted(DefaultInherited, None)
        ELSE
        LET parent_folded_decl == parents[u[1].id]
            sig == SubstNew(parent_folded_decl.tparams, u[1].tyl)
            consts == instantiate_consts(sig, parent_folded_decl.consts)
            type_consts == instantiate_type_consts(sig, parent_folded_decl.type_consts)
            kind == parent_folded_decl.kind[1]
            parent_inh ==
                IF kind = "Ctrait"
                THEN [DefaultInherited EXCEPT
                        !.consts = consts,
                        !.type_consts = type_consts,
                        !.props = chown_all(parent_folded_decl.props, c.name),
                        !.static_props = chown_all(parent_folded_decl.static_props, c.name),
                        !.methods = chown_all(parent_folded_decl.methods, c.name),
                        !.static_methods = chown_all(parent_folded_decl.static_methods, c.name)]
                ELSE IF kind \in {"Cclass", "Cinterface"}
                THEN [DefaultInherited EXCEPT
                        !.consts = consts,
                        !.type_consts = type_consts,
                        !.props = filter_not_private(parent_folded_decl.props),
                        !.static_props = filter_not_private(parent_folded_decl.static_props),
                        !.methods = filter_not_private(parent_folded_decl.methods),
                        !.static_methods = filter_not_private(parent_folded_decl.static_methods)]
                ELSE [DefaultInherited EXCEPT
                        !.consts = consts,
                        !.type_consts = type_consts,
                        !.props = parent_folded_decl.props,
                        !.static_props = parent_folded_decl.static_props,
                        !.methods = parent_folded_decl.methods,
                        !.static_methods = parent_folded_decl.static_methods]
            new_sc == SubstCtx(sig, c.name, FALSE)
            substs == [k \in (DOMAIN parent_folded_decl.substs) \cup {parent_folded_decl.name} |->
                        IF k = parent_folded_decl.name THEN new_sc
                        ELSE parent_folded_decl.substs[k]]
        IN  Extracted([parent_inh EXCEPT !.substs = substs,
                                         !.constructor = parent_folded_decl.constructor],
                      IF ~parent_folded_decl.is_hhi
                      THEN Some(DepCall(<<"Type", c.name>>,
                                        <<"Constructor", parent_folded_decl.name>>))
                      ELSE None)

\* mutant: an absent ancestor contributes a constant
class_constants_from_class_absent_contributes(c, parents, ty) ==
    LET u == unwrap_class_type(ty)
    IN  IF u = None \/ u[1].id \notin DOMAIN parents
        THEN Extracted([DefaultInherited EXCEPT
                            !.consts = [K |-> Const(FALSE, CCConcrete, "mixed", "Missing")]],
                       None)
        ELSE
        LET class == parents[u[1].id]
            sig == SubstNew(class.tparams, u[1].tyl)
        IN  Extracted([DefaultInherited EXCEPT
                        !.consts = instantiate_consts(sig, class.consts),
                        !.type_consts = instantiate_type_consts(sig, class.type_consts)],
                      None)

\* mutant: the constants-only extraction registers a dependency too
class_constants_from_class_registers(c, parents, ty) ==
    LET u == unwrap_class_type(ty)
    IN  IF u = None \/ u[1].id \notin DOMAIN parents
        THEN Extracted(DefaultInherited, None)
        ELSE
        LET class == parents[u[1].id]
            sig == SubstNew(class.tparams, u[1].tyl)
        IN  Extracted([DefaultInherited EXCEPT
                        !.consts = instantiate_consts(sig, class.consts),
                        !.type_consts = instantiate_type_consts(sig, class.type_consts)],
                      Some(DepCall(<<"Type", c.name>>, <<"Constructor", class.name>>)))

class_constants_from_class(c, parents, ty) ==
    LET u == unwrap_class_type(ty)
    IN  IF u = None \/ u[1].id \notin DOMAIN parents
        THEN Extracted(DefaultInherited, None)
        ELSE
        LET class == parents[u[1].id]
            sig == SubstNew(class.tparams, u[1].tyl)
        IN  Extracted([DefaultInherited EXCEPT
                        !.consts = instantiate_consts(sig, class.consts),
                        !.type_consts = instantiate_type_consts(sig, class.type_consts)],
                      None)

\* mutant: the donor gives all its properties
xhp_attrs_from_class_all_props(c, parents, ty) ==
    LET u == unwrap_class_type(ty)
    IN  IF u = None \/ u[1].id \notin DOMAIN parents
        THEN Extracted(DefaultInherited, None)
        ELSE Extracted([DefaultInherited EXCEPT !.props = parents[u[1].id].props], None)

xhp_attrs_from_class(c, parents, ty) ==
    LET u == unwrap_class_type(ty)
    IN  IF u = None \/ u[1].id \notin DOMAIN parents
        THEN Extracted(DefaultInherited, None)
        ELSE
        LET class == parents[u[1].id]
        IN  Extracted([DefaultInherited EXCEPT
                        !.props = [k \in {x \in DOMAIN class.props : class.props[x].xhp_attr}
                                     |-> class.props[k]]],
                      None)

(***************************************************************************)
(* The lookup table of folded ancestors (the `parents` argument of make):  *)
(* a hierarchy with one ancestor of every kind and every flavour of member *)
(* the merge rules distinguish.                                            *)
(*   class Base<T>            concrete members, a private and an lsb one   *)
(*   abstract class Abs       abstract members, enforceable TC w/ default  *)
(*   abstract class Syn       members already synthesized (from "Root")    *)
(*   trait Tr                 private, protected and public members        *)
(*   trait TrA                abstract members                             *)
(*   trait TrReq              require extends Base<mixed>: Base's members, *)
(*                            synthesized                                  *)
(*   interface I1, I2<T>      abstract members                             *)
(*   enum E                   constants                                    *)
(*   class Hhi                declared in an hhi file                      *)
(***************************************************************************)
Folded(name, kind, is_hhi, tparams, substs, props, static_props, methods,
       static_methods, constructor, consts, type_consts) ==
    [name |-> name, kind |-> kind, is_hhi |-> is_hhi, tparams |-> tparams,
     substs |-> substs, props |-> props, static_props |-> static_props,
     methods |-> methods, static_methods |-> static_methods,
     constructor |-> constructor, consts |-> consts, type_consts |-> type_consts]

\* (its substs map holds an entry under its own name: the table is an input
\* that make takes as it is)
BaseClass ==
    Folded("Base", Cclass("Concrete"), FALSE, <<"T">>,
        [Base |-> SubstCtx([T |-> "stale"], "Base", TRUE)],
        [p |-> Elt(Protected("Base"), FALSE, FALSE, FALSE, FALSE, TRUE, "Base"),
         priv |-> Elt(Private("Base"), FALSE, FALSE, FALSE, FALSE, FALSE, "Base"),
         q |-> Elt(Public, FALSE, FALSE, FALSE, FALSE, FALSE, "Base")],
        [sp |-> Elt(Private("Base"), FALSE, FALSE, FALSE, TRUE, FALSE, "Base")],
        [f |-> Elt(Public, FALSE, FALSE, TRUE, FALSE, FALSE, "Base"),
         g |-> Elt(Private("Base"), FALSE, FALSE, FALSE, FALSE, FALSE, "Base")],
        [sf |-> Elt(Private("Base"), FALSE, FALSE, FALSE, TRUE, FALSE, "Base")],
        Ctor(Some(Elt(Public, FALSE, FALSE, FALSE, FALSE, FALSE, "Base")),
             "ConsistentConstruct"),
        [K |-> Const(FALSE, CCConcrete, "T", "Base")],
        [TC |-> TConst(FALSE, TCConcrete("T"), None, "Base")])

AbsClass ==
    Folded("Abs", Cclass("Abstract"), FALSE, <<>>, EmptyMap,
        [p |-> Elt(Public, FALSE, FALSE, FALSE, FALSE, FALSE, "Abs")],
        EmptyMap,
        [f |-> Elt(Public, TRUE, FALSE, FALSE, FALSE, FALSE, "Abs")],
        EmptyMap,
        Ctor(Some(Elt(Protected("Abs"), TRUE, FALSE, FALSE, FALSE, FALSE, "Abs")),
             "Inconsistent"),
        [K |-> Const(FALSE, CCAbstract(FALSE), "int", "Abs")],
        [TC |-> TConst(FALSE, TCAbstract(Some("string")), Some("Abs"), "Abs")])

SynClass ==
    Folded("Syn", Cclass("Abstract"), FALSE, <<>>,
        [Base |-> SubstCtx([T |-> "mixed"], "Syn", TRUE)],
        EmptyMap,
        EmptyMap,
        [f |-> Elt(Public, FALSE, TRUE, FALSE, FALSE, FALSE, "Root")],
        EmptyMap,
        Ctor(Some(Elt(Public, FALSE, TRUE, FALSE, FALSE, FALSE, "Root")), "FinalClass"),
        [K |-> Const(TRUE, CCConcrete, "mixed", "Root")],
        [TC |-> TConst(TRUE, TCConcrete("mixed"), None, "Root")])

TrTrait ==
    Folded("Tr", Ctrait, FALSE, <<>>, EmptyMap,
        [priv |-> Elt(Private("Tr"), FALSE, FALSE, FALSE, FALSE, FALSE, "Tr"),
         p |-> Elt(Protected("Tr"), FALSE, FALSE, FALSE, FALSE, FALSE, "Tr")],
        [sp |-> Elt(Public, FALSE, FALSE, FALSE, FALSE, FALSE, "Tr")],
        [f |-> Elt(Public, FALSE, FALSE, TRUE, FALSE, FALSE, "Tr"),
         g |-> Elt(Private("Tr"), FALSE, FALSE, FALSE, FALSE, FALSE, "Tr")],
        [sf |-> Elt(Protected("Tr"), FALSE, FALSE, TRUE, FALSE, FALSE, "Tr")],
        Ctor(None, "Inconsistent"),
        [K |-> Const(FALSE, CCConcrete, "int", "Tr")],
        EmptyMap)

TrATrait ==
    Folded("TrA", Ctrait, FALSE, <<>>, EmptyMap,
        EmptyMap,
        EmptyMap,
        [f |-> Elt(Public, TRUE, FALSE, TRUE, FALSE, FALSE, "TrA")],
        EmptyMap,
        Ctor(None, "Inconsistent"),
        [K |-> Const(FALSE, CCAbstract(TRUE), "int", "TrA")],
        [TC |-> TConst(FALSE, TCAbstract(None), None, "TrA")])

TrReqTrait ==
    Folded("TrReq", Ctrait, FALSE, <<>>,
        [Base |-> SubstCtx([T |-> "mixed"], "TrReq", TRUE)],
        [p |-> Elt(Protected("Base"), FALSE, TRUE, FALSE, FALSE, TRUE, "Base")],
        EmptyMap,
        [f |-> Elt(Public, FALSE, TRUE, TRUE, FALSE, FALSE, "Base")],
        EmptyMap,
        Ctor(Some(Elt(Public, FALSE, TRUE, FALSE, FALSE, FALSE, "Base")),
             "ConsistentConstruct"),
        [K |-> Const(TRUE, CCConcrete, "mixed", "Base")],
        [TC |-> TConst(TRUE, TCConcrete("mixed"), None, "Base")])

I1Interface ==
    Folded("I1", Cinterface, FALSE, <<>>, EmptyMap,
        EmptyMap,
        EmptyMap,
        [f |-> Elt(Public, TRUE, FALSE, FALSE, FALSE, FALSE, "I1")],
        EmptyMap,
        Ctor(None, "Inconsistent"),
        [K |-> Const(FALSE, CCAbstract(FALSE), "int", "I1")],
        [TC |-> TConst(FALSE, TCAbstract(None), None, "I1")])

I2Interface ==
    Folded("I2", Cinterface, FALSE, <<"T">>, EmptyMap,
        EmptyMap,
        EmptyMap,
        [f |-> Elt(Public, TRUE, FALSE, FALSE, FALSE, FALSE, "I2")],
        EmptyMap,
        Ctor(None, "Inconsistent"),
        [K |-> Const(FALSE, CCAbstract(FALSE), "T", "I2")],
        [TC |-> TConst(FALSE, TCAbstract(None), Some("I2"), "I2")])

EEnum ==
    Folded("E", Cenum, FALSE, <<>>, EmptyMap,
        EmptyMap,
        EmptyMap,
        [g |-> Elt(Private("E"), FALSE, FALSE, FALSE, FALSE, FALSE, "E")],
        EmptyMap,
        Ctor(None, "Inconsistent"),
        [K |-> Const(FALSE, CCConcrete, "int", "E"),
         A |-> Const(FALSE, CCConcrete, "int", "E")],
        EmptyMap)

HhiClass ==
    Folded("Hhi", Cclass("Concrete"), TRUE, <<>>, EmptyMap,
        [p |-> Elt(Private("Hhi"), FALSE, FALSE, FALSE, FALSE, TRUE, "Hhi")],
        EmptyMap,
        [f |-> Elt(Public, FALSE, FALSE, FALSE, FALSE, FALSE, "Hhi")],
        EmptyMap,
        Ctor(Some(Elt(Public, FALSE, FALSE, FALSE, FALSE, FALSE, "Hhi")), "FinalClass"),
        EmptyMap,
        EmptyMap)

Parents ==
    [Base |-> BaseClass, Abs |-> AbsClass, Syn |-> SynClass, Tr |-> TrTrait,
     TrA |-> TrATrait, TrReq |-> TrReqTrait, I1 |-> I1Interface,
     I2 |-> I2Interface, E |-> EEnum, Hhi |-> HhiClass]

(***************************************************************************)
(* The children: every classish kind, with at most MaxRels relationship    *)
(* references in all, each list drawing on the references a declaration of *)
(* that list names, a name absent from the table ("Missing") and a type    *)
(* that is no class.                                                       *)
(***************************************************************************)
ChildKinds ==
    {Cclass("Abstract"), Cclass("Concrete"), Cinterface, Ctrait, Cenum,
     CenumClass("Concrete")}

RelLists ==
    {"extends", "implements", "uses", "req_extends", "req_implements",
     "xhp_attr_uses", "includes"}

ListTargets(l) ==
    CASE l = "extends" ->
            {Tapply("Base", <<"int">>), Tapply("Abs", <<>>), Tapply("Syn", <<>>),
             Tapply("I1", <<>>), Tapply("I2", <<"string">>), Tapply("E", <<>>),
             Tapply("Hhi", <<>>), Tapply("Missing", <<>>), Tmixed}
      [] l = "implements" ->
            {Tapply("I1", <<>>), Tapply("I2", <<"string">>), Tapply("Missing", <<>>)}
      [] l = "uses" ->
            {Tapply("Tr", <<>>), Tapply("TrA", <<>>), Tapply("TrReq", <<>>), Tmixed}
      [] l = "req_extends" ->
            {Tapply("Base", <<"mixed">>), Tapply("Abs", <<>>), Tapply("Hhi", <<>>)}
      [] l = "req_implements" ->
            {Tapply("I1", <<>>), Tapply("I2", <<"string">>)}
      [] l = "xhp_attr_uses" ->
            {Tapply("Base", <<"int">>), Tapply("Hhi", <<>>), Tapply("Missing", <<>>)}
      [] l = "includes" ->
            {Tapply("E", <<>>), Tapply("Missing", <<>>)}

\* a ShallowClass without relationships; enum_type is Some for enums only
EmptyChild(kind) ==
    [name |-> "Child", kind |-> kind, extends |-> <<>>, implements |-> <<>>,
     uses |-> <<>>, req_extends |-> <<>>, req_implements |-> <<>>,
     xhp_attr_uses |-> <<>>,
     enum_type |-> IF kind[1] \in {"Cenum", "CenumClass"}
                   THEN Some([includes |-> <<>>]) ELSE None]

AddRef(c, l, ty) ==
    CASE l = "extends" -> [c EXCEPT !.extends = Append(@, ty)]
      [] l = "implements" -> [c EXCEPT !.implements = Append(@, ty)]
      [] l = "uses" -> [c EXCEPT !.uses = Append(@, ty)]
      [] l = "req_extends" -> [c EXCEPT !.req_extends = Append(@, ty)]
      [] l = "req_implements" -> [c EXCEPT !.req_implements = Append(@, ty)]
      [] l = "xhp_attr_uses" -> [c EXCEPT !.xhp_attr_uses = Append(@, ty)]
      [] l = "includes" ->
            IF c.enum_type = None THEN c
            ELSE [c EXCEPT !.enum_type = Some([includes |-> Append(@[1].includes, ty)])]

\* a reference and the relationship list it is declared in
Placements == UNION {{<<l, ty>> : ty \in ListTargets(l)} : l \in RelLists}

\* the child with the references ps declared, in order
RECURSIVE WithRefs(_, _)
WithRefs(c, ps) ==
    IF ps = <<>> THEN c
    ELSE WithRefs(AddRef(c, Head(ps)[1], Head(ps)[2]), Tail(ps))

(***************************************************************************)
(* make: the seven loops, in order.                                        *)
(***************************************************************************)
\* mutant: the traits are folded before the parents
PhasesTraitsFirst ==
    <<"traits", "parents", "requirements", "xhp_attr_uses",
      "interface_constants", "included_enums_constants", "implements_constants">>

Phases ==
    <<"parents", "requirements", "traits", "xhp_attr_uses",
      "interface_constants", "included_enums_constants", "implements_constants">>

Reverse(s) == [i \in 1..Len(s) |-> s[Len(s) + 1 - i]]

\* mutant: every class looks at implements in step 1
parent_tys_every_class(c) ==
    IF c.kind[1] = "Cclass" THEN c.implements \o c.extends
    ELSE IF c.kind = Ctrait THEN c.implements \o c.extends \o c.req_implements
    ELSE c.extends

\* the list `tys` of add_from_parents
parent_tys(c) ==
    IF c.kind = Cclass("Abstract") THEN c.implements \o c.extends
    ELSE IF c.kind = Ctrait THEN c.implements \o c.extends \o c.req_implements
    ELSE c.extends

\* mutant: step 1 goes over its list in declaration order
PhaseListForward(c, phase) ==
    CASE phase = "parents" -> parent_tys(c)
      [] phase = "requirements" -> c.req_extends
      [] phase = "traits" -> c.uses
      [] phase = "xhp_attr_uses" -> c.xhp_attr_uses
      [] phase = "interface_constants" -> c.req_implements
      [] phase = "included_enums_constants" ->
            IF c.enum_type = None THEN <<>> ELSE c.enum_type[1].includes
      [] phase = "implements_constants" -> c.implements

\* the references each loop iterates over, in iteration order
PhaseList(c, phase) ==
    CASE phase = "parents" -> Reverse(parent_tys(c))
      [] phase = "requirements" -> c.req_extends
      [] phase = "traits" -> c.uses
      [] phase = "xhp_attr_uses" -> c.xhp_attr_uses
      [] phase = "interface_constants" -> c.req_implements
      [] phase = "included_enums_constants" ->
            IF c.enum_type = None THEN <<>> ELSE c.enum_type[1].includes
      [] phase = "implements_constants" -> c.implements

\* the first loop from the i-th on that has a reference to process, or the
\* return of Ok(folder.members)
RECURSIVE PhaseFrom(_, _)
PhaseFrom(c, i) ==
    IF i > Len(Phases) THEN "ok"
    ELSE IF Len(PhaseList(c, Phases[i])) > 0 THEN Phases[i]
    ELSE PhaseFrom(c, i + 1)

PhaseIndex(phase) == CHOOSE i \in 1..Len(Phases) : Phases[i] = phase

Init ==
    /\ \E kind \in ChildKinds : \E n \in 0..MaxRels : \E ps \in [1..n -> Placements] :
            child = WithRefs(EmptyChild(kind), ps)
    /\ members = DefaultInherited
    /\ pc = PhaseFrom(child, 1)
    /\ idx = 1
    /\ deps = <<>>
    /\ hist = <<>>

\* the end of one loop iteration: add_inherited, then the next reference
Absorbed(phase, ty, inh) ==
    /\ members' = add_inherited(members, inh)
    /\ hist' = Append(hist, [phase |-> phase, ty |-> ty, inh |-> inh])
    /\ IF idx < Len(PhaseList(child, phase))
       THEN pc' = phase /\ idx' = idx + 1
       ELSE pc' = PhaseFrom(child, PhaseIndex(phase) + 1) /\ idx' = 1

\* mutant: a failed registrar call is swallowed and the reference skipped
Iteration_swallows_failure(phase, ty, x, inh) ==
    /\ UNCHANGED child
    /\ IF x.dep = None
       THEN Absorbed(phase, ty, inh) /\ UNCHANGED deps
       ELSE /\ deps' = Append(deps, x.dep[1])
            /\ \E succeeds \in BOOLEAN :
                IF succeeds THEN Absorbed(phase, ty, inh)
                ELSE /\ UNCHANGED <<members, hist>>
                     /\ IF idx < Len(PhaseList(child, phase))
                        THEN pc' = phase /\ idx' = idx + 1
                        ELSE pc' = PhaseFrom(child, PhaseIndex(phase) + 1) /\ idx' = 1

\* one loop iteration: the extraction x (its registrar call succeeds or
\* fails; `?` returns the error from make), then the absorption of inh
Iteration(phase, ty, x, inh) ==
    /\ UNCHANGED child
    /\ IF x.dep = None
       THEN Absorbed(phase, ty, inh) /\ UNCHANGED deps
       ELSE /\ deps' = Append(deps, x.dep[1])
            /\ \E succeeds \in BOOLEAN :
                IF succeeds THEN Absorbed(phase, ty, inh)
                ELSE pc' = "err" /\ UNCHANGED <<members, idx, hist>>

AddFromParents ==
    /\ pc = "parents"
    /\ LET ty == PhaseList(child, "parents")[idx]
           x == members_from_class(child, Parents, ty)
       IN  Iteration("parents", ty, x, x.inh)

AddFromRequirements ==
    /\ pc = "requirements"
    /\ LET ty == PhaseList(child, "requirements")[idx]
           x == members_from_class(child, Parents, ty)
       IN  Iteration("requirements", ty, x, mark_as_synthesized(x.inh))

AddFromTraits ==
    /\ pc = "traits"
    /\ LET ty == PhaseList(child, "traits")[idx]
           x == members_from_class(child, Parents, ty)
       IN  Iteration("traits", ty, x, x.inh)

AddFromXhpAttrUses ==
    /\ pc = "xhp_attr_uses"
    /\ LET ty == PhaseList(child, "xhp_attr_uses")[idx]
           x == xhp_attrs_from_class(child, Parents, ty)
       IN  Iteration("xhp_attr_uses", ty, x, x.inh)

AddFromInterfaceConstants ==
    /\ pc = "interface_constants"
    /\ LET ty == PhaseList(child, "interface_constants")[idx]
           x == class_constants_from_class(child, Parents, ty)
       IN  Iteration("interface_constants", ty, x, x.inh)

AddFromIncludedEnumsConstants ==
    /\ pc = "included_enums_constants"
    /\ LET ty == PhaseList(child, "included_enums_constants")[idx]
           x == class_constants_from_class(child, Parents, ty)
       IN  Iteration("included_enums_constants", ty, x, x.inh)

AddFromImplementsConstants ==
    /\ pc = "implements_constants"
    /\ LET ty == PhaseList(child, "implements_constants")[idx]
           x == class_constants_from_class(child, Parents, ty)
       IN  Iteration("implements_constants", ty, x, x.inh)

Next ==
    \/ AddFromParents
    \/ AddFromRequirements
    \/ AddFromTraits
    \/ AddFromXhpAttrUses
    \/ AddFromInterfaceConstants
    \/ AddFromIncludedEnumsConstants
    \/ AddFromImplementsConstants

Spec == Init /\ [][Next]_vars

(***************************************************************************)
(* Properties.                                                             *)
(***************************************************************************)
\* the i-th absorbed Inherited set
Incoming(h) == h.inh

\* the set absorbed by the step just taken
LastIncoming == Incoming(hist[Len(hist)])

Stepped == Len(hist') = Len(hist) + 1

\* a member, whatever its superfluous_override flag
Strip(fe) == [fe EXCEPT !.superfluous_override = FALSE]

\* C1's rule for one map of methods: old map, incoming map, new map
MethodRule(old_map, in_map, new_map) ==
    /\ DOMAIN new_map = (DOMAIN old_map) \cup (DOMAIN in_map)
    /\ \A k \in DOMAIN new_map :
        IF k \notin DOMAIN in_map THEN new_map[k] = old_map[k]
        ELSE IF k \notin DOMAIN old_map THEN new_map[k] = in_map[k]
        ELSE LET old == old_map[k]
                 new == in_map[k]
                 keep == \/ ~old.abstract /\ new.abstract
                         \/ /\ old.abstract = new.abstract
                            /\ ~old.synthesized
                            /\ new.synthesized
             IN  new_map[k] = IF keep THEN old
                              ELSE [new EXCEPT !.superfluous_override = FALSE]

\* C1: a method or static method absorbed under a name already present
\* leaves the existing entry exactly when (existing concrete, incoming
\* abstract) or (equal abstractness, existing not synthesized, incoming
\* synthesized); otherwise the entry becomes the incoming member with its
\* superfluous_override flag cleared and nothing else changed.  Under an
\* absent name the incoming member is inserted unchanged.
C1_MethodAbsorption ==
    [][Stepped =>
        /\ MethodRule(members.methods, LastIncoming'.methods, members'.methods)
        /\ MethodRule(members.static_methods, LastIncoming'.static_methods,
                      members'.static_methods)]_vars

\* C1 witness: the second contribution's f, flagged superfluous_override,
\* replaced the first one's and is stored with the flag cleared, while its
\* static method sf was inserted under an absent name with the flag kept.
C1_Witness ==
    /\ pc = "absorb"
    /\ Len(hist) = 2
    /\ hist[1].inh.methods["f"].superfluous_override
    /\ hist[2].inh.methods["f"].superfluous_override
    /\ members.methods["f"].origin = ContributorName(hist[2].c)
    /\ members.methods["f"].origin # ContributorName(hist[1].c)
    /\ ~members.methods["f"].superfluous_override
    /\ "sf" \notin DOMAIN hist[1].inh.static_methods
    /\ "sf" \in DOMAIN members.static_methods
    /\ members.static_methods["sf"].superfluous_override

\* C2: once the aggregate holds a concrete method, static method or
\* constructor element, it holds a concrete one after every further
\* absorption, whatever the synthesized flags.
C2_ConcreteStays ==
    [][/\ \A k \in DOMAIN members.methods :
            ~members.methods[k].abstract =>
                k \in DOMAIN members'.methods /\ ~members'.methods[k].abstract
       /\ \A k \in DOMAIN members.static_methods :
            ~members.static_methods[k].abstract =>
                /\ k \in DOMAIN members'.static_methods
                /\ ~members'.static_methods[k].abstract
       /\ (members.constructor.elt # None /\ ~members.constructor.elt[1].abstract) =>
            /\ members'.constructor.elt # None
            /\ ~members'.constructor.elt[1].abstract]_vars

\* C2 witness: a concrete synthesized f and constructor are held, and the
\* last contribution absorbed offered abstract, not synthesized ones.
C2_Witness ==
    /\ pc = "absorb"
    /\ Len(hist) >= 2
    /\ ~members.methods["f"].abstract
    /\ members.methods["f"].synthesized
    /\ members.constructor.elt # None
    /\ ~members.constructor.elt[1].abstract
    /\ members.constructor.elt[1].synthesized
    /\ LastIncoming.methods["f"].abstract
    /\ ~LastIncoming.methods["f"].synthesized
    /\ LastIncoming.constructor.elt # None
    /\ LastIncoming.constructor.elt[1].abstract

Range(s) == {s[i] : i \in DOMAIN s}

\* the methods a reference contributes by full member extraction
ExtractedMethods(ty) == members_from_class(child, Parents, ty).inh.methods

\* the methods a req_extends reference contributes
RequiredMethods(ty) ==
    mark_as_synthesized(members_from_class(child, Parents, ty).inh).methods

\* the members named f contributed by the req_extends ancestors
ReqEntries(f) ==
    {Strip(RequiredMethods(ty)[f]) :
        ty \in {t \in Range(child.req_extends) : f \in DOMAIN RequiredMethods(t)}}

\* the members named f contributed by the extended and the used ancestors
ExtUseEntries(f) ==
    {Strip(ExtractedMethods(ty)[f]) :
        ty \in {t \in Range(child.extends) \cup Range(child.uses) :
                    f \in DOMAIN ExtractedMethods(t)}}

\* the members named f contributed in step 1 of make
Step1Entries(f) ==
    {Strip(ExtractedMethods(ty)[f]) :
        ty \in {t \in Range(parent_tys(child)) : f \in DOMAIN ExtractedMethods(t)}}

MethodNames == {"f", "g"}

\* C3 as stated: in the result of make a method contributed both by a
\* req_extends ancestor and by an extends/uses ancestor is the one of the
\* extends/uses ancestor, for every combination of abstractness.
C3_ReqNeverWins ==
    pc = "ok" =>
        \A f \in MethodNames :
            (ReqEntries(f) # {} /\ ExtUseEntries(f) # {}) =>
                /\ f \in DOMAIN members.methods
                /\ Strip(members.methods[f]) \in ExtUseEntries(f)

\* the req_extends member is concrete and every extends/uses one is abstract
ReqConcreteOthersAbstract(f) ==
    /\ \E r \in ReqEntries(f) : ~r.abstract
    /\ \A e \in ExtUseEntries(f) : e.abstract

\* a member contributed in step 1 is synthesized in its ancestor already
Step1Synthesized(f) == \E e \in Step1Entries(f) : e.synthesized

\* C3 amended: in the result of make a method contributed both by a
\* req_extends ancestor and by an extends/uses ancestor is never the
\* req_extends ancestor's member, unless that member is concrete and every
\* extends/uses contribution is abstract, or a step-1 contribution is itself
\* already synthesized.
C3_ReqNeverWinsUnlessConcrete ==
    pc = "ok" =>
        \A f \in MethodNames :
            (/\ ReqEntries(f) # {}
             /\ ExtUseEntries(f) # {}
             /\ ~ReqConcreteOthersAbstract(f)
             /\ ~Step1Synthesized(f)) =>
                /\ f \in DOMAIN members.methods
                /\ Strip(members.methods[f]) \notin (ReqEntries(f) \ ExtUseEntries(f))

\* C3 witness: f comes from a req_extends ancestor and from a used trait,
\* both concrete, and the result holds the trait's member, not synthesized.
C3_Witness ==
    /\ pc = "ok"
    /\ ReqEntries("f") # {}
    /\ \A r \in ReqEntries("f") : ~r.abstract
    /\ child.uses # <<>>
    /\ ExtUseEntries("f") # {}
    /\ ~ReqConcreteOthersAbstract("f")
    /\ ~Step1Synthesized("f")
    /\ Strip(members.methods["f"]) \in ExtUseEntries("f")
    /\ Strip(members.methods["f"]) \notin ReqEntries("f")
    /\ ~members.methods["f"].synthesized

\* the least position of a non-empty set of positions
Earliest(S) == CHOOSE i \in S : \A j \in S : i <= j

\* C4: after any sequence of absorptions the context held for an ancestor
\* is the earliest absorbed one with from_req_extends = FALSE if there is
\* one, and the earliest absorbed one otherwise.
C4_SubstPrecedence ==
    LET absorbed == [i \in DOMAIN hist |-> Incoming(hist[i]).substs]
        positions(n) == {i \in DOMAIN hist : n \in DOMAIN absorbed[i]}
        real(n) == {i \in positions(n) : ~absorbed[i][n].from_req_extends}
    IN  /\ DOMAIN members.substs = UNION {DOMAIN absorbed[i] : i \in DOMAIN hist}
        /\ \A n \in DOMAIN members.substs :
            members.substs[n] =
                absorbed[Earliest(IF real(n) # {} THEN real(n) ELSE positions(n))][n]

\* C4 witness: a required context was absorbed first, then two that are not
\* required; the one held is the second contribution's.
C4_Witness ==
    /\ pc = "absorb"
    /\ Len(hist) = 3
    /\ hist[1].inh.substs["Base"].from_req_extends
    /\ ~hist[2].inh.substs["Base"].from_req_extends
    /\ ~hist[3].inh.substs["Base"].from_req_extends
    /\ hist[1] # hist[2] /\ hist[2] # hist[3]
    /\ members.substs["Base"] = hist[2].inh.substs["Base"]
    /\ members.substs["Base"] # hist[3].inh.substs["Base"]

\* C5's rule for the map of class constants: old map, incoming map, new map
ConstRule(old_map, in_map, new_map) ==
    /\ DOMAIN new_map = (DOMAIN old_map) \cup (DOMAIN in_map)
    /\ \A k \in DOMAIN new_map :
        IF k \notin DOMAIN in_map THEN new_map[k] = old_map[k]
        ELSE IF k \notin DOMAIN old_map THEN new_map[k] = in_map[k]
        ELSE LET old == old_map[k]
                 new == in_map[k]
                 keep == \/ ~old.is_synthesized /\ new.is_synthesized
                         \/ old.kind[1] = "CCConcrete" /\ new.kind[1] = "CCAbstract"
             IN  new_map[k] = IF keep THEN old ELSE new

\* C5: a non-synthesized constant is never replaced by a synthesized one and
\* a concrete constant never by an abstract one; in every other conflict the
\* incoming constant replaces the existing one.  So a concrete,
\* non-synthesized constant and an abstract one of the same name yield the
\* concrete one in both absorption orders.
C5_ConstPrecedence ==
    [][Stepped =>
        /\ ConstRule(members.consts, LastIncoming'.consts, members'.consts)
        /\ Len(hist') = 2 =>
            \A i \in {1, 2} :
                LET concrete == hist'[i].inh.consts
                    other == hist'[3 - i].inh.consts
                IN  \A k \in (DOMAIN concrete) \cap (DOMAIN other) :
                        (/\ concrete[k].kind[1] = "CCConcrete"
                         /\ ~concrete[k].is_synthesized
                         /\ other[k].kind[1] = "CCAbstract") =>
                            members'.consts[k] = concrete[k]]_vars

\* C5 witness: an abstract K, then a concrete non-synthesized K that
\* replaced it, then a concrete synthesized K that was rejected.
C5_Witness ==
    /\ pc = "absorb"
    /\ Len(hist) = 3
    /\ hist[1].inh.consts["K"].kind[1] = "CCAbstract"
    /\ hist[2].inh.consts["K"].kind[1] = "CCConcrete"
    /\ ~hist[2].inh.consts["K"].is_synthesized
    /\ hist[3].inh.consts["K"].kind[1] = "CCConcrete"
    /\ hist[3].inh.consts["K"].is_synthesized
    /\ members.consts["K"] = hist[2].inh.consts["K"]
    /\ members.consts["K"] # hist[3].inh.consts["K"]

\* C6: once a type constant T absorbed under some contribution was
\* enforceable, the aggregate's T is enforceable ever after, whether that
\* definition was kept, rejected or later replaced.
C6_EnforceableSticky ==
    \A i \in DOMAIN hist :
        \A k \in DOMAIN hist[i].inh.type_consts :
            is_enforceable(hist[i].inh.type_consts[k]) =>
                /\ k \in DOMAIN members.type_consts
                /\ is_enforceable(members.type_consts[k])

\* C6 witness: an enforceable abstract TC was absorbed first and replaced
\* twice by concrete definitions that are not enforceable; the aggregate
\* holds the last definition, enforceable with the first one's marker.
C6_Witness ==
    /\ pc = "absorb"
    /\ Len(hist) = 3
    /\ is_enforceable(hist[1].inh.type_consts["TC"])
    /\ ~is_enforceable(hist[2].inh.type_consts["TC"])
    /\ ~is_enforceable(hist[3].inh.type_consts["TC"])
    /\ hist[2].c # hist[3].c
    /\ members.type_consts["TC"].origin = hist[3].inh.type_consts["TC"].origin
    /\ members.type_consts["TC"].kind = hist[3].inh.type_consts["TC"].kind
    /\ members.type_consts["TC"].enforceable = hist[1].inh.type_consts["TC"].enforceable

\* a type constant without its enforceable marker: the definition
Definition(tc) == [tc EXCEPT !.enforceable = None]

\* C7's rule for the map of type constants
TypeConstRule(old_map, in_map, new_map) ==
    /\ DOMAIN new_map = (DOMAIN old_map) \cup (DOMAIN in_map)
    /\ \A k \in DOMAIN new_map :
        IF k \notin DOMAIN in_map THEN Definition(new_map[k]) = Definition(old_map[k])
        ELSE IF k \notin DOMAIN old_map THEN new_map[k] = in_map[k]
        ELSE LET old == old_map[k]
                 new == in_map[k]
                 keep == \/ old.kind[1] = "TCConcrete" /\ new.kind[1] = "TCAbstract"
                         \/ /\ old.kind[1] = "TCAbstract" /\ old.kind[2] # None
                            /\ new.kind[1] = "TCAbstract" /\ new.kind[2] = None
             IN  Definition(new_map[k]) = Definition(IF keep THEN old ELSE new)

\* C7: of an abstract type constant without default and one with a default
\* the definition stored is the one with the default, in both absorption
\* orders; a concrete type constant is never replaced by an abstract one; in
\* every other conflict the incoming definition replaces the existing one.
C7_TypeConstPrecedence ==
    [][Stepped =>
        /\ TypeConstRule(members.type_consts, LastIncoming'.type_consts,
                         members'.type_consts)
        /\ Len(hist') = 2 =>
            \A i \in {1, 2} :
                LET with_default == hist'[i].inh.type_consts
                    bare == hist'[3 - i].inh.type_consts
                IN  \A k \in (DOMAIN with_default) \cap (DOMAIN bare) :
                        (/\ with_default[k].kind[1] = "TCAbstract"
                         /\ with_default[k].kind[2] # None
                         /\ bare[k].kind[1] = "TCAbstract"
                         /\ bare[k].kind[2] = None) =>
                            Definition(members'.type_consts[k]) =
                                Definition(with_default[k])]_vars

\* C7 witness: a bare abstract TC, then one with a default that replaced
\* it, then a bare abstract one again, rejected.
C7_Witness ==
    /\ pc = "absorb"
    /\ Len(hist) = 3
    /\ hist[1].inh.type_consts["TC"].kind = TCAbstract(None)
    /\ hist[2].inh.type_consts["TC"].kind[1] = "TCAbstract"
    /\ hist[2].inh.type_consts["TC"].kind[2] # None
    /\ hist[3].inh.type_consts["TC"].kind = TCAbstract(None)
    /\ Definition(members.type_consts["TC"]) = Definition(hist[2].inh.type_consts["TC"])
    /\ Definition(members.type_consts["TC"]) # Definition(hist[3].inh.type_consts["TC"])

\* the references of a list, tagged with the loop that absorbs them
Tagged(phase, tys) == [i \in 1..Len(tys) |-> <<phase, tys[i]>>]

\* the order of absorption C8 states, for the child being folded
StatedOrder ==
    Tagged("parents", Reverse(parent_tys(child)))
        \o Tagged("requirements", child.req_extends)
        \o Tagged("traits", child.uses)
        \o Tagged("xhp_attr_uses", child.xhp_attr_uses)
        \o Tagged("interface_constants", child.req_implements)
        \o Tagged("included_enums_constants",
                  IF child.enum_type = None THEN <<>> ELSE child.enum_type[1].includes)
        \o Tagged("implements_constants", child.implements)

\* what has been absorbed follows the stated order, and is all of it when
\* make returns Ok
AbsorbedInStatedOrder ==
    /\ Len(hist) <= Len(StatedOrder)
    /\ \A i \in DOMAIN hist : <<hist[i].phase, hist[i].ty>> = StatedOrder[i]
    /\ pc = "ok" => Len(hist) = Len(StatedOrder)

\* a used trait is absorbed when only step-1 parents have been absorbed
TraitOverParents ==
    /\ Stepped
    /\ hist'[Len(hist')].phase = "traits"
    /\ \A i \in DOMAIN hist : hist[i].phase = "parents"

\* C8 as stated: make absorbs in the order parents, requirements, traits,
\* XHP donors, req_implements constants, included-enum constants, implements
\* constants; a trait's method replaces a parent's of the same name unless
\* the parent's is concrete and the trait's abstract.
C8_TraitReplacesParent ==
    /\ []AbsorbedInStatedOrder
    /\ [][TraitOverParents =>
            \A f \in (DOMAIN members.methods) \cap (DOMAIN LastIncoming'.methods) :
                LET old == members.methods[f]
                    new == LastIncoming'.methods[f]
                IN  members'.methods[f] =
                        IF ~old.abstract /\ new.abstract THEN old ELSE Strip(new)]_vars

\* C8 amended: the same order; a trait's method replaces a parent's of the
\* same name unless the override-priority predicate keeps the parent's:
\* the parent's is concrete and the trait's abstract, or they are equally
\* abstract and the parent's is not synthesized while the trait's is.
C8_TraitReplacesParentUnlessKept ==
    /\ []AbsorbedInStatedOrder
    /\ [][TraitOverParents =>
            \A f \in (DOMAIN members.methods) \cap (DOMAIN LastIncoming'.methods) :
                LET old == members.methods[f]
                    new == LastIncoming'.methods[f]
                    keep == \/ ~old.abstract /\ new.abstract
                            \/ /\ old.abstract = new.abstract
                               /\ ~old.synthesized
                               /\ new.synthesized
                IN  members'.methods[f] = IF keep THEN old ELSE Strip(new)]_vars

\* C8 witness: make returned Ok for a child that extends Base and uses Tr;
\* the parent was absorbed first, and f is the trait's, owned flag cleared.
C8_Witness ==
    /\ pc = "ok"
    /\ Len(hist) = 2
    /\ hist[1].phase = "parents" /\ hist[1].ty = Tapply("Base", <<"int">>)
    /\ hist[2].phase = "traits" /\ hist[2].ty = Tapply("Tr", <<>>)
    /\ hist[1].inh.methods["f"].origin = "Base"
    /\ hist[2].inh.methods["f"].superfluous_override
    /\ members.methods["f"] = Strip(hist[2].inh.methods["f"])
    /\ members.methods["f"].origin = "Tr"

\* the step-1 relationship list as C9 states it, per child kind
StatedStep1List ==
    CASE child.kind = Cclass("Abstract") -> child.implements \o child.extends
      [] child.kind = Ctrait ->
            child.implements \o child.extends \o child.req_implements
      [] OTHER -> child.extends

\* step 1 absorbs the stated list in reverse
Step1Reversed ==
    \A i \in 1..Len(StatedStep1List) :
        i <= Len(hist) =>
            /\ hist[i].phase = "parents"
            /\ hist[i].ty = StatedStep1List[Len(StatedStep1List) + 1 - i]

MemberMaps ==
    {"props", "static_props", "methods", "static_methods", "consts", "type_consts"}

\* what the merge rules look at to separate two same-named members
Separator(m, x) ==
    IF m \in {"props", "static_props", "methods", "static_methods"}
    THEN <<x.abstract, x.synthesized>>
    ELSE IF m = "consts" THEN <<x.kind, x.is_synthesized>>
    ELSE <<x.kind[1],
           IF x.kind[1] = "TCAbstract" THEN x.kind[2] # None ELSE FALSE,
           x.is_synthesized>>

\* a member without the fields a merge adjusts on the winner
Shown(m, x) ==
    IF m \in {"methods", "static_methods"} THEN Strip(x)
    ELSE IF m = "type_consts" THEN Definition(x)
    ELSE x

\* what the i-th relationship of the step-1 list contributed to map m
Step1Contribution(i, m) == hist[Len(StatedStep1List) + 1 - i].inh[m]

\* the relationships of the step-1 list that contribute `name` to map m
Step1Contributors(m, name) ==
    {i \in 1..Len(StatedStep1List) : name \in DOMAIN Step1Contribution(i, m)}

NotSeparated(m, name) ==
    \A i, j \in Step1Contributors(m, name) :
        Separator(m, Step1Contribution(i, m)[name])
            = Separator(m, Step1Contribution(j, m)[name])

\* steps 5 and 7 go over relationships of the step-1 list again
Step1ListAgain(phase) ==
    \/ phase = "implements_constants" /\ child.kind \in {Cclass("Abstract"), Ctrait}
    \/ phase = "interface_constants" /\ child.kind = Ctrait

\* a relationship outside the step-1 list contributes `name` to map m
OtherRelationshipContributes(m, name) ==
    \E j \in DOMAIN hist :
        /\ j > Len(StatedStep1List)
        /\ ~Step1ListAgain(hist[j].phase)
        /\ name \in DOMAIN hist[j].inh[m]

\* a step after step 1 contributes `name` to map m
LaterStepContributes(m, name) ==
    \E j \in DOMAIN hist :
        j > Len(StatedStep1List) /\ name \in DOMAIN hist[j].inh[m]

EarlierDeclaredPresent(m, name) ==
    /\ name \in DOMAIN members[m]
    /\ Shown(m, members[m][name])
        = Shown(m, Step1Contribution(Earliest(Step1Contributors(m, name)), m)[name])

AllNames == {"f", "g", "p", "q", "priv", "sp", "sf", "K", "A", "TC"}

\* C9 as stated: step 1 absorbs the kind-specific list in reverse, so of
\* two relationships of that list contributing a same-named member that
\* the merge rules do not separate, the earlier-declared one's member is
\* in the result of make (no other relationship contributing the name).
C9_EarlierDeclaredWins ==
    /\ Step1Reversed
    /\ pc = "ok" =>
        \A m \in MemberMaps : \A name \in AllNames :
            (/\ Cardinality(Step1Contributors(m, name)) >= 2
             /\ NotSeparated(m, name)
             /\ ~OtherRelationshipContributes(m, name))
                => EarlierDeclaredPresent(m, name)

\* the implements references that contribute `name` to map m in step 7
ImplementsContributors(m, name) ==
    {j \in DOMAIN hist :
        hist[j].phase = "implements_constants" /\ name \in DOMAIN hist[j].inh[m]}

\* C9 amended: the same list and reverse absorption; the earlier-declared
\* relationship's member is in the result of make when no later step
\* contributes the name to the same collection.  Steps 5 and 7 contribute
\* the class constants and type constants of req_implements and implements
\* again, in declaration order: for an abstract class, of implements
\* relationships contributing a same-named constant the merge rules do not
\* separate, the later-declared one's is in the result.
C9_EarlierDeclaredWinsUnlessReabsorbed ==
    /\ Step1Reversed
    /\ pc = "ok" =>
        /\ \A m \in MemberMaps : \A name \in AllNames :
            (/\ Cardinality(Step1Contributors(m, name)) >= 2
             /\ NotSeparated(m, name)
             /\ ~LaterStepContributes(m, name))
                => EarlierDeclaredPresent(m, name)
        /\ child.kind = Cclass("Abstract") =>
            \A m \in {"consts", "type_consts"} : \A name \in AllNames :
                LET S == ImplementsContributors(m, name)
                IN  (/\ S # {}
                     /\ \A i, j \in DOMAIN hist :
                            (name \in DOMAIN hist[i].inh[m]
                                /\ name \in DOMAIN hist[j].inh[m])
                            => Separator(m, hist[i].inh[m][name])
                                = Separator(m, hist[j].inh[m][name]))
                    => LET last == CHOOSE j \in S : \A k \in S : k <= j
                       IN  Shown(m, members[m][name])
                            = Shown(m, hist[last].inh[m][name])

\* C9 witness: make returned Ok for an abstract class implementing I1 then
\* I2; both contribute an abstract f and an abstract K; f is I1's, K is I2's.
C9_Witness ==
    /\ pc = "ok"
    /\ child.kind = Cclass("Abstract")
    /\ child.implements = <<Tapply("I1", <<>>), Tapply("I2", <<"string">>)>>
    /\ Len(hist) = 4
    /\ Step1Contributors("methods", "f") = {1, 2}
    /\ NotSeparated("methods", "f")
    /\ members.methods["f"].origin = "I1"
    /\ members.consts["K"].origin = "I2"

\* the references full member extraction processes, in processing order
FullExtractionRefs ==
    Reverse(StatedStep1List) \o child.req_extends \o child.uses

FullExtractionPhases == {"parents", "requirements", "traits"}

\* the reference resolves to an ancestor of the table that is not from an
\* hhi file
ResolvesToNonHhi(ty) ==
    /\ ty[1] = "Tapply"
    /\ ty[2] \in DOMAIN Parents
    /\ ~Parents[ty[2]].is_hhi

\* the call C10 states for a reference
StatedCall(ty) ==
    [dependent |-> <<"Type", child.name>>, dependency |-> <<"Constructor", ty[2]>>]

StatedCalls ==
    LET refs == SelectSeq(FullExtractionRefs, ResolvesToNonHhi)
    IN  [i \in DOMAIN refs |-> StatedCall(refs[i])]

\* C10: the registrar is called exactly once for each reference processed
\* by full member extraction that resolves to a present non-hhi ancestor,
\* with dependent the child type and dependency the ancestor's constructor,
\* and is called for nothing else: not for an hhi ancestor, a missing
\* ancestor, or by the constants-only and XHP-attribute extractions.
C10_RegistrarCalls ==
    /\ Len(deps) <= Len(StatedCalls)
    /\ \A i \in DOMAIN deps : deps[i] = StatedCalls[i]
    /\ Len(deps) =
        Cardinality({j \in DOMAIN hist :
                        /\ hist[j].phase \in FullExtractionPhases
                        /\ ResolvesToNonHhi(hist[j].ty)})
            + (IF pc = "err" THEN 1 ELSE 0)
    /\ pc = "ok" => deps = StatedCalls
    /\ (pc = "ok" /\ Len(FullExtractionRefs) = 1
            /\ ResolvesToNonHhi(FullExtractionRefs[1])) => Len(deps) = 1
    /\ (pc = "ok" /\ \A i \in DOMAIN FullExtractionRefs :
                        FullExtractionRefs[i] = Tapply("Hhi", <<>>)) => deps = <<>>

\* C10 witness: make returned Ok for a concrete class that extends Base and
\* implements I1; the one call is for Base's constructor, none for I1.
C10_Witness ==
    /\ pc = "ok"
    /\ child.kind = Cclass("Concrete")
    /\ child.extends = <<Tapply("Base", <<"int">>)>>
    /\ child.implements = <<Tapply("I1", <<>>)>>
    /\ Len(hist) = 2
    /\ hist[2].phase = "implements_constants"
    /\ hist[2].inh.consts # EmptyMap
    /\ deps = <<DepCall(<<"Type", "Child">>, <<"Constructor", "Base">>)>>

\* make returned Ok for a child whose only full-extraction reference is an
\* hhi ancestor that contributed its members: no call was made
C10_HhiReached ==
    /\ pc = "ok"
    /\ child.extends = <<Tapply("Hhi", <<>>)>>
    /\ Len(hist) = 1
    /\ "f" \in DOMAIN hist[1].inh.methods
    /\ deps = <<>>

\* a step of make in which a registrar call fails
FailedStep ==
    /\ pc' = "err"
    /\ hist' = hist
    /\ members' = members
    /\ Len(deps') = Len(deps) + 1

\* a step of make in which a reference is extracted and absorbed
AbsorbedStep ==
    /\ pc' # "err"
    /\ Stepped
    /\ Len(deps') \in {Len(deps), Len(deps) + 1}

\* C11: a failed registrar call makes make return the error at once: no
\* later reference is extracted or absorbed and the registrar is not called
\* again; short of Ok or the error a loop always has its next reference to
\* go over, so when no call fails every reference is absorbed and make
\* returns Ok: the registrar is the only source of failure.
C11_FailureAborts ==
    /\ [][pc \notin {"ok", "err"} /\ (FailedStep \/ AbsorbedStep)]_vars
    /\ [](pc \notin {"ok", "err"} =>
            /\ pc \in Range(Phases)
            /\ idx \in DOMAIN PhaseList(child, pc))
    /\ [](pc # "err" => (pc = "ok" <=> Len(hist) = Len(StatedOrder)))
    /\ [](pc = "err" => Len(hist) < Len(StatedOrder))

\* C11 witness: make returned the error of the second registrar call; one
\* reference is absorbed and two remain that never are.
C11_Witness ==
    /\ pc = "err"
    /\ Len(deps) = 2
    /\ Len(hist) = 1
    /\ Len(StatedOrder) = 3
    /\ members = add_inherited(DefaultInherited, hist[1].inh)

(***************************************************************************)
(* make as a function of the child: the value returned when every          *)
(* registrar call succeeds, and the calls made.                            *)
(***************************************************************************)
\* the references one loop of make goes over, tagged with the loop
PhaseRefs(c, phase) ==
    LET l == PhaseList(c, phase) IN [i \in 1..Len(l) |-> <<phase, l[i]>>]

\* the references make goes over, in order
MakeRefs(c) ==
    PhaseRefs(c, Phases[1]) \o PhaseRefs(c, Phases[2]) \o PhaseRefs(c, Phases[3])
        \o PhaseRefs(c, Phases[4]) \o PhaseRefs(c, Phases[5])
        \o PhaseRefs(c, Phases[6]) \o PhaseRefs(c, Phases[7])

\* what a loop absorbs for a reference, and the registrar call it makes
ExtractFor(c, phase, ty) ==
    IF phase \in {"parents", "traits"} THEN members_from_class(c, Parents, ty)
    ELSE IF phase = "requirements"
    THEN LET x == members_from_class(c, Parents, ty)
         IN  Extracted(mark_as_synthesized(x.inh), x.dep)
    ELSE IF phase = "xhp_attr_uses" THEN xhp_attrs_from_class(c, Parents, ty)
    ELSE class_constants_from_class(c, Parents, ty)

RECURSIVE make_from(_, _, _)
make_from(c, refs, acc) ==
    IF refs = <<>> THEN acc
    ELSE LET x == ExtractFor(c, Head(refs)[1], Head(refs)[2])
         IN  make_from(c, Tail(refs),
                [members |-> add_inherited(acc.members, x.inh),
                 deps |-> IF x.dep = None THEN acc.deps
                          ELSE Append(acc.deps, x.dep[1])])

make(c) == make_from(c, MakeRefs(c), [members |-> DefaultInherited, deps |-> <<>>])

\* a reference that is no class type, or names no ancestor of the table
Dangling(ty) == ty[1] # "Tapply" \/ ty[2] \notin DOMAIN Parents

ListOf(c, l) ==
    CASE l = "extends" -> c.extends
      [] l = "implements" -> c.implements
      [] l = "uses" -> c.uses
      [] l = "req_extends" -> c.req_extends
      [] l = "req_implements" -> c.req_implements
      [] l = "xhp_attr_uses" -> c.xhp_attr_uses
      [] l = "includes" -> IF c.enum_type = None THEN <<>> ELSE c.enum_type[1].includes

Without(s, i) == SubSeq(s, 1, i - 1) \o SubSeq(s, i + 1, Len(s))

\* the child with the i-th reference of list l removed
RemoveRef(c, l, i) ==
    CASE l = "extends" -> [c EXCEPT !.extends = Without(@, i)]
      [] l = "implements" -> [c EXCEPT !.implements = Without(@, i)]
      [] l = "uses" -> [c EXCEPT !.uses = Without(@, i)]
      [] l = "req_extends" -> [c EXCEPT !.req_extends = Without(@, i)]
      [] l = "req_implements" -> [c EXCEPT !.req_implements = Without(@, i)]
      [] l = "xhp_attr_uses" -> [c EXCEPT !.xhp_attr_uses = Without(@, i)]
      [] l = "includes" ->
            [c EXCEPT !.enum_type = Some([includes |-> Without(@[1].includes, i)])]

\* the step just taken went over a dangling reference
DanglingStep ==
    /\ pc \notin {"ok", "err"}
    /\ Dangling(PhaseList(child, pc)[idx])

\* C12: a reference that is no class type or names an absent ancestor is
\* no error and contributes nothing: the step over it changes neither the
\* aggregate nor the registrar calls and does not fail, and the result of
\* make and its registrar calls are those for the child without it.
C12_DanglingContributesNothing ==
    /\ [][DanglingStep => (pc' # "err" /\ Stepped /\ members' = members /\ deps' = deps)]_vars
    /\ [](pc = "ok" =>
            /\ [members |-> members, deps |-> deps] = make(child)
            /\ \A l \in RelLists : \A i \in DOMAIN ListOf(child, l) :
                Dangling(ListOf(child, l)[i])
                    => make(RemoveRef(child, l, i)) = make(child))

\* C12 witness: make returned Ok for a child that extends Base and, after
\* it, a name absent from the table; the result is that of extending Base.
C12_Witness ==
    /\ pc = "ok"
    /\ child.extends = <<Tapply("Base", <<"int">>), Tapply("Missing", <<>>)>>
    /\ Len(hist) = 2
    /\ hist[1].ty = Tapply("Missing", <<>>)
    /\ hist[1].inh = DefaultInherited
    /\ members = add_inherited(DefaultInherited, hist[2].inh)
    /\ Len(deps) = 1
    /\ [members |-> members, deps |-> deps]
        = make([child EXCEPT !.extends = <<Tapply("Base", <<"int">>)>>])

ElementMaps == {"props", "static_props", "methods", "static_methods"}

\* the ownership rewrite C13 states for a member taken from a trait
StatedTraitMember(elt, owner) ==
    IF elt.visibility[1] = "Private"
    THEN Elt(<<"Private", owner>>, elt.abstract, elt.synthesized,
             elt.superfluous_override, elt.lsb, elt.xhp_attr, elt.origin)
    ELSE IF elt.visibility[1] = "Protected" /\ ~elt.synthesized
    THEN Elt(<<"Protected", owner>>, elt.abstract, elt.synthesized,
             elt.superfluous_override, elt.lsb, elt.xhp_attr, elt.origin)
    ELSE elt

\* the h-th absorbed set is the full extraction of a trait of the table
FromTrait(h) ==
    /\ hist[h].phase = "traits"
    /\ ~Dangling(hist[h].ty)
    /\ Parents[hist[h].ty[2]].kind = Ctrait

\* C13: full extraction from a trait takes all its props, static props,
\* methods and static methods, private ones included; a private member
\* becomes private to the child, a protected member that is not synthesized
\* protected of the child, a synthesized protected one keeps its owner, a
\* public one is unchanged, and no other field changes.  A private property
\* of a used trait is owned by the child in the result of make.
C13_TraitOwnership ==
    /\ \A h \in DOMAIN hist : FromTrait(h) =>
        LET trait == Parents[hist[h].ty[2]]
        IN  \A m \in ElementMaps :
                /\ DOMAIN hist[h].inh[m] = DOMAIN trait[m]
                /\ \A k \in DOMAIN trait[m] :
                    hist[h].inh[m][k] = StatedTraitMember(trait[m][k], child.name)
    /\ pc = "ok" =>
        \A h \in DOMAIN hist : FromTrait(h) =>
            \A k \in DOMAIN Parents[hist[h].ty[2]].props :
                (/\ Parents[hist[h].ty[2]].props[k].visibility[1] = "Private"
                 /\ \A j \in DOMAIN hist : j > h => k \notin DOMAIN hist[j].inh.props)
                    => members.props[k].visibility = <<"Private", child.name>>

\* C13 witness: make returned Ok for a child that uses Tr and TrReq; Tr's
\* private property is the child's, TrReq's synthesized protected property
\* still Base's.
C13_Witness ==
    /\ pc = "ok"
    /\ child.uses = <<Tapply("Tr", <<>>), Tapply("TrReq", <<>>)>>
    /\ Len(hist) = 2
    /\ FromTrait(1) /\ FromTrait(2)
    /\ Parents["Tr"].props["priv"].visibility = <<"Private", "Tr">>
    /\ members.props["priv"].visibility = <<"Private", "Child">>
    /\ hist[1].inh.props["p"].visibility = <<"Protected", "Child">>
    /\ members.props["p"].visibility = <<"Protected", "Base">>
    /\ members.methods["g"].visibility = <<"Private", "Child">>

\* the ancestors of the table the child references, in any list
Referenced ==
    {ty[2] : ty \in {t \in UNION {Range(ListOf(child, l)) : l \in RelLists} : ~Dangling(t)}}

PrivateNotLsb(elt) == elt.visibility[1] = "Private" /\ ~elt.lsb

\* the result of make has an entry that originates from member k of map m
\* of ancestor a
Propagated(a, m, k) ==
    /\ k \in DOMAIN members[m]
    /\ members[m][k].origin = Parents[a][m][k].origin
    /\ members[m][k].visibility[1] = "Private"
    /\ ~members[m][k].lsb

\* C14 as stated: for every ancestor the child references, no private
\* member of it that is not lsb has an entry in the result of make.
C14_PrivateNeverPropagates ==
    pc = "ok" =>
        \A a \in Referenced : \A m \in ElementMaps : \A k \in DOMAIN Parents[a][m] :
            PrivateNotLsb(Parents[a][m][k]) => ~Propagated(a, m, k)

\* the h-th absorbed set is the full extraction of a class or interface
FromClassOrInterface(h) ==
    /\ hist[h].phase \in FullExtractionPhases
    /\ ~Dangling(hist[h].ty)
    /\ Parents[hist[h].ty[2]].kind[1] \in {"Cclass", "Cinterface"}

\* member k of map m of ancestor a reaches the child as an XHP attribute
DonatedXhpAttr(a, m, k) ==
    /\ m = "props"
    /\ Parents[a].props[k].xhp_attr
    /\ \E i \in DOMAIN child.xhp_attr_uses :
        child.xhp_attr_uses[i][1] = "Tapply" /\ child.xhp_attr_uses[i][2] = a

\* C14 amended: full member extraction from a class or interface ancestor
\* takes exactly the members that are not private or are lsb, and the
\* result of make has no entry originating from a private non-lsb member
\* of a referenced class or interface, unless that member is an
\* XHP-attribute property and the ancestor is an XHP attribute donor.
\* (Trait and enum ancestors contribute their private members.)
C14_PrivateOfClassNeverPropagates ==
    /\ \A h \in DOMAIN hist : FromClassOrInterface(h) =>
        \A m \in ElementMaps :
            DOMAIN hist[h].inh[m]
                = {k \in DOMAIN Parents[hist[h].ty[2]][m] :
                        ~PrivateNotLsb(Parents[hist[h].ty[2]][m][k])}
    /\ pc = "ok" =>
        \A a \in Referenced : \A m \in ElementMaps : \A k \in DOMAIN Parents[a][m] :
            (/\ Parents[a].kind[1] \in {"Cclass", "Cinterface"}
             /\ PrivateNotLsb(Parents[a][m][k])
             /\ ~DonatedXhpAttr(a, m, k))
                => ~Propagated(a, m, k)

\* C14 witness: make returned Ok for a child that extends Base; Base's
\* private g and priv are not in the result, its private lsb sp is.
C14_Witness ==
    /\ pc = "ok"
    /\ child.extends = <<Tapply("Base", <<"int">>)>>
    /\ Len(hist) = 1
    /\ PrivateNotLsb(Parents["Base"].methods["g"])
    /\ PrivateNotLsb(Parents["Base"].props["priv"])
    /\ "g" \notin DOMAIN members.methods
    /\ "priv" \notin DOMAIN members.props
    /\ "f" \in DOMAIN members.methods
    /\ members.static_props["sp"].visibility[1] = "Private"

\* the properties of an ancestor that carry XHP-attribute metadata
XhpAttrProps(a) ==
    {k \in DOMAIN Parents[a].props : Parents[a].props[k].xhp_attr}

\* a step of the loop over xhp_attr_uses that goes over a donor of the table
DonorStep ==
    /\ pc = "xhp_attr_uses"
    /\ ~Dangling(child.xhp_attr_uses[idx])
    /\ Stepped

\* C15: an XHP attribute donor contributes exactly its instance properties
\* that carry XHP-attribute metadata: the step over it sets those
\* properties, leaves every other property and every other part of the
\* aggregate as it was, the constructor's consistency marker included, and
\* calls no registrar.
C15_XhpDonor ==
    [][DonorStep =>
        LET a == child.xhp_attr_uses[idx][2]
        IN  /\ DOMAIN LastIncoming'.props = XhpAttrProps(a)
            /\ DOMAIN members'.props = (DOMAIN members.props) \cup XhpAttrProps(a)
            /\ \A k \in DOMAIN members'.props :
                members'.props[k] = IF k \in XhpAttrProps(a) THEN Parents[a].props[k]
                                    ELSE members.props[k]
            /\ members'.static_props = members.static_props
            /\ members'.methods = members.methods
            /\ members'.static_methods = members.static_methods
            /\ members'.consts = members.consts
            /\ members'.type_consts = members.type_consts
            /\ members'.substs = members.substs
            /\ members'.constructor = members.constructor
            /\ deps' = deps]_vars

\* C15 witness: make returned Ok for a child that uses Tr and takes XHP
\* attributes from Base; of Base's three properties only p, the XHP
\* attribute, came; Tr's priv and the rest of the aggregate stayed.
C15_Witness ==
    /\ pc = "ok"
    /\ child.uses = <<Tapply("Tr", <<>>)>>
    /\ child.xhp_attr_uses = <<Tapply("Base", <<"int">>)>>
    /\ Len(hist) = 2
    /\ Cardinality(DOMAIN Parents["Base"].props) = 3
    /\ DOMAIN hist[2].inh.props = {"p"}
    /\ members.props["p"] = Parents["Base"].props["p"]
    /\ members.props["priv"] = hist[1].inh.props["priv"]
    /\ members.methods = hist[1].inh.methods
    /\ "Base" \notin DOMAIN members.substs
    /\ Len(deps) = 1

\* C16's rule for a map of properties
OverwriteRule(old_map, in_map, new_map) ==
    /\ DOMAIN new_map = (DOMAIN old_map) \cup (DOMAIN in_map)
    /\ \A k \in DOMAIN new_map :
        new_map[k] = IF k \in DOMAIN in_map THEN in_map[k] ELSE old_map[k]

\* C16: absorbing a set overwrites props and static props: every name of
\* the incoming set maps to the incoming element, whatever the flags of
\* the two elements, and every other name keeps its element.
C16_PropsOverwrite ==
    [][Stepped =>
        /\ OverwriteRule(members.props, LastIncoming'.props, members'.props)
        /\ OverwriteRule(members.static_props, LastIncoming'.static_props,
                         members'.static_props)]_vars

\* C16 witness: a concrete p and a static sp were held; an abstract p came,
\* without sp; p is the incoming abstract one, sp the held one.
C16_Witness ==
    /\ pc = "absorb"
    /\ Len(hist) = 2
    /\ ~hist[1].c.a /\ hist[1].c.s
    /\ hist[2].c.a /\ ~hist[2].c.s
    /\ ~hist[1].inh.props["p"].abstract
    /\ members.props["p"] = hist[2].inh.props["p"]
    /\ members.props["p"].abstract
    /\ "sp" \notin DOMAIN hist[2].inh.static_props
    /\ members.static_props["sp"] = hist[1].inh.static_props["sp"]

\* the child has no relationship of any kind
NoRelationships ==
    /\ \A l \in RelLists : ListOf(child, l) = <<>>

\* C17: for a child with no relationships make returns Ok with an
\* aggregate whose seven maps are empty and whose constructor has no
\* element and is inconsistent, and calls no registrar.
C17_NoRelationships ==
    NoRelationships =>
        /\ pc = "ok"
        /\ DOMAIN members.substs = {}
        /\ DOMAIN members.props = {}
        /\ DOMAIN members.static_props = {}
        /\ DOMAIN members.methods = {}
        /\ DOMAIN members.static_methods = {}
        /\ DOMAIN members.consts = {}
        /\ DOMAIN members.type_consts = {}
        /\ members.constructor.elt = <<>>
        /\ members.constructor.consistency = "Inconsistent"
        /\ deps = <<>>
        /\ make(child) = [members |-> members, deps |-> deps]

\* C17 witness: make returned Ok for an enum without relationships or
\* includes, having absorbed nothing.
C17_Witness ==
    /\ pc = "ok"
    /\ child.kind = Cenum
    /\ NoRelationships
    /\ child.enum_type = Some([includes |-> <<>>])
    /\ hist = <<>>
    /\ members = DefaultInherited

\* the fields of the aggregate other than the two maps of constants
SameButConstants(a, b) ==
    /\ a.props = b.props
    /\ a.static_props = b.static_props
    /\ a.methods = b.methods
    /\ a.static_methods = b.static_methods
    /\ a.substs = b.substs
    /\ a.constructor = b.constructor

\* the relationships C18 is about: implements of a concrete class,
\* req_implements of a child that is no trait, the includes of an enum
ConstantsOnlyList(l) ==
    \/ l = "implements" /\ child.kind = Cclass("Concrete")
    \/ l = "req_implements" /\ child.kind # Ctrait
    \/ l = "includes"

\* the loop that goes over such a list
ConstantsOnlyStep ==
    /\ Stepped
    /\ \/ pc = "implements_constants" /\ ConstantsOnlyList("implements")
       \/ pc = "interface_constants" /\ ConstantsOnlyList("req_implements")
       \/ pc = "included_enums_constants"

\* C18: an interface in the implements of a concrete class, in the
\* req_implements of a child that is no trait, or an enum in includes,
\* contributes class constants and type constants only: the step over it
\* leaves props, static props, methods, static methods, substitution
\* contexts and constructor as they were and calls no registrar, and the
\* result of make differs from that without the reference in constants only.
C18_ConstantsOnly ==
    /\ [][ConstantsOnlyStep =>
            /\ SameButConstants(members', members)
            /\ deps' = deps
            /\ \A k \in DOMAIN LastIncoming'.consts : k \in DOMAIN members'.consts
            /\ \A k \in DOMAIN LastIncoming'.type_consts : k \in DOMAIN members'.type_consts]_vars
    /\ [](pc = "ok" =>
            \A l \in RelLists : ConstantsOnlyList(l) =>
                \A i \in DOMAIN ListOf(child, l) :
                    LET without == make(RemoveRef(child, l, i))
                    IN  /\ SameButConstants(members, without.members)
                        /\ deps = without.deps)

\* C18 witness: make returned Ok for a concrete class that implements I1;
\* I1's constants are in the result, its method f is not, and nothing was
\* registered.
C18_Witness ==
    /\ pc = "ok"
    /\ child.kind = Cclass("Concrete")
    /\ child.implements = <<Tapply("I1", <<>>)>>
    /\ Len(hist) = 1
    /\ "f" \in DOMAIN Parents["I1"].methods
    /\ members.consts["K"].origin = "I1"
    /\ members.type_consts["TC"].origin = "I1"
    /\ SameButConstants(members, DefaultInherited)
    /\ deps = <<>>

\* C19: absorbing a constructor without element leaves the held element;
\* with an element, the held element stays exactly when there is one and
\* the priority predicate keeps it (held concrete and incoming abstract, or
\* equally abstract with held not synthesized and incoming synthesized),
\* otherwise the incoming element is stored; the consistency marker becomes
\* the coalescence of the held and the incoming marker.
C19_ConstructorAbsorption ==
    [][Stepped =>
        LET old == members.constructor
            in == LastIncoming'.constructor
            new == members'.constructor
            keep == \/ ~old.elt[1].abstract /\ in.elt[1].abstract
                    \/ /\ old.elt[1].abstract = in.elt[1].abstract
                       /\ ~old.elt[1].synthesized
                       /\ in.elt[1].synthesized
        IN  /\ new.elt = IF in.elt = <<>> THEN old.elt
                         ELSE IF old.elt = <<>> THEN in.elt
                         ELSE IF keep THEN old.elt
                         ELSE in.elt
            /\ new.consistency = coalesce(old.consistency, in.consistency)]_vars

\* C19 witness: the abstract constructor of a final class was absorbed,
\* then a concrete one of an inconsistent class, then a constructor without
\* element: the concrete element is held, the marker that of the first.
C19_Witness ==
    /\ pc = "absorb"
    /\ Len(hist) = 3
    /\ hist[1].inh.constructor.elt # <<>>
    /\ hist[1].inh.constructor.elt[1].abstract
    /\ hist[1].inh.constructor.consistency = "FinalClass"
    /\ hist[2].inh.constructor.elt # <<>>
    /\ ~hist[2].inh.constructor.elt[1].abstract
    /\ hist[2].inh.constructor.consistency = "Inconsistent"
    /\ hist[3].inh.constructor.elt = <<>>
    /\ hist[3].inh.constructor.consistency = "ConsistentConstruct"
    /\ members.constructor.elt = hist[2].inh.constructor.elt
    /\ members.constructor.consistency = "FinalClass"

\* the h-th absorbed set is the contribution of a req_extends ancestor
FromRequirement(h) == hist[h].phase = "requirements" /\ ~Dangling(hist[h].ty)

\* C20: the contribution of a req_extends ancestor is absorbed marked: it
\* has the keys of the extraction; every prop, static prop, method, static
\* method, constant, type constant and the constructor element is
\* synthesized, every substitution context is from_req_extends, and every
\* other field is that of the extraction.
C20_RequirementMarked ==
    \A h \in DOMAIN hist : FromRequirement(h) =>
        LET raw == members_from_class(child, Parents, hist[h].ty).inh
            got == hist[h].inh
        IN  /\ \A m \in ElementMaps :
                /\ DOMAIN got[m] = DOMAIN raw[m]
                /\ \A k \in DOMAIN raw[m] :
                    got[m][k] = Elt(raw[m][k].visibility, raw[m][k].abstract, TRUE,
                                    raw[m][k].superfluous_override, raw[m][k].lsb,
                                    raw[m][k].xhp_attr, raw[m][k].origin)
            /\ DOMAIN got.consts = DOMAIN raw.consts
            /\ \A k \in DOMAIN raw.consts :
                got.consts[k] = Const(TRUE, raw.consts[k].kind, raw.consts[k].ty,
                                      raw.consts[k].origin)
            /\ DOMAIN got.type_consts = DOMAIN raw.type_consts
            /\ \A k \in DOMAIN raw.type_consts :
                got.type_consts[k] = TConst(TRUE, raw.type_consts[k].kind,
                                            raw.type_consts[k].enforceable,
                                            raw.type_consts[k].origin)
            /\ DOMAIN got.substs = DOMAIN raw.substs
            /\ \A k \in DOMAIN raw.substs :
                got.substs[k] = SubstCtx(raw.substs[k].subst,
                                         raw.substs[k].class_context, TRUE)
            /\ got.constructor.consistency = raw.constructor.consistency
            /\ (raw.constructor.elt = <<>>) = (got.constructor.elt = <<>>)
            /\ raw.constructor.elt # <<>> =>
                LET e == raw.constructor.elt[1]
                IN  got.constructor.elt[1] =
                        Elt(e.visibility, e.abstract, TRUE, e.superfluous_override,
                            e.lsb, e.xhp_attr, e.origin)

\* C20 witness: the contribution of the requirement Abs was absorbed: its
\* abstract f, protected abstract constructor, enforceable TC and context
\* are marked, and are the ancestor's otherwise.
C20_Witness ==
    /\ Len(hist) >= 1
    /\ hist[Len(hist)].phase = "requirements"
    /\ hist[Len(hist)].ty = Tapply("Abs", <<>>)
    /\ ~Parents["Abs"].methods["f"].synthesized
    /\ hist[Len(hist)].inh.methods["f"].synthesized
    /\ hist[Len(hist)].inh.methods["f"].abstract
    /\ hist[Len(hist)].inh.constructor.elt[1].synthesized
    /\ hist[Len(hist)].inh.constructor.elt[1].visibility = <<"Protected", "Abs">>
    /\ hist[Len(hist)].inh.type_consts["TC"].is_synthesized
    /\ hist[Len(hist)].inh.type_consts["TC"].enforceable = <<"Abs">>
    /\ hist[Len(hist)].inh.substs["Abs"].from_req_extends
    /\ members.methods["f"] = hist[Len(hist)].inh.methods["f"]

\* the h-th absorbed set comes from full member extraction of an ancestor
\* of the table
FromFullExtraction(h) ==
    hist[h].phase \in FullExtractionPhases /\ ~Dangling(hist[h].ty)

\* C21: full member extraction from a present ancestor returns the
\* ancestor's substitution contexts and, under the ancestor's name, in
\* place of any entry there, the substitution from its declared parameters
\* to the reference's type arguments with the child as class context and
\* from_req_extends false; the ancestor's constructor, element and
\* consistency marker, is returned as it is, for every ancestor kind.
C21_SubstsAndConstructor ==
    \A h \in DOMAIN hist : FromFullExtraction(h) =>
        LET a == Parents[hist[h].ty[2]]
            got == members_from_class(child, Parents, hist[h].ty).inh
        IN  /\ hist[h].phase # "requirements" => hist[h].inh = got
            /\ DOMAIN got.substs = (DOMAIN a.substs) \cup {a.name}
            /\ got.substs[a.name] =
                    [subst |-> SubstNew(a.tparams, hist[h].ty[3]),
                     class_context |-> child.name,
                     from_req_extends |-> FALSE]
            /\ \A k \in (DOMAIN a.substs) \ {a.name} : got.substs[k] = a.substs[k]
            /\ got.constructor.elt = a.constructor.elt
            /\ got.constructor.consistency = a.constructor.consistency

\* C21 witness: Base<int> was extracted for an extends; Base's map had a
\* required entry under Base; the entry absorbed maps T to int in the
\* context of the child, not required, and Base's constructor came as it is.
C21_Witness ==
    /\ Len(hist) = 1
    /\ hist[1].phase = "parents"
    /\ hist[1].ty = Tapply("Base", <<"int">>)
    /\ Parents["Base"].substs["Base"].from_req_extends
    /\ hist[1].inh.substs["Base"] = SubstCtx([T |-> "int"], "Child", FALSE)
    /\ members.substs["Base"] = SubstCtx([T |-> "int"], "Child", FALSE)
    /\ hist[1].inh.constructor = Parents["Base"].constructor
    /\ members.constructor.consistency = "ConsistentConstruct"

SevenMaps ==
    {"substs", "props", "static_props", "methods", "static_methods",
     "consts", "type_consts"}

\* C22: absorption removes no name: the key set of each of the seven maps
\* after absorbing a set is the union of its key set before and that of
\* the set absorbed, so every key ever absorbed is still there; and a
\* constructor element, once present, is never reset to none.
C22_KeysGrow ==
    /\ [][Stepped =>
            /\ \A m \in SevenMaps :
                DOMAIN members'[m] = (DOMAIN members[m]) \cup (DOMAIN LastIncoming'[m])
            /\ members.constructor.elt # <<>> => members'.constructor.elt # <<>>]_vars
    /\ [](\A h \in DOMAIN hist :
            /\ \A m \in SevenMaps : DOMAIN hist[h].inh[m] \subseteq DOMAIN members[m]
            /\ hist[h].inh.constructor.elt # <<>> => members.constructor.elt # <<>>)

\* C22 witness: the first set absorbed had q, sp and a constructor element,
\* the two after it had none of them: all three are still held.
C22_Witness ==
    /\ pc = "absorb"
    /\ Len(hist) = 3
    /\ "q" \in DOMAIN hist[1].inh.props
    /\ "sp" \in DOMAIN hist[1].inh.static_props
    /\ hist[1].inh.constructor.elt # <<>>
    /\ \A h \in {2, 3} :
        /\ "q" \notin DOMAIN hist[h].inh.props
        /\ "sp" \notin DOMAIN hist[h].inh.static_props
        /\ hist[h].inh.constructor.elt = <<>>
    /\ DOMAIN members.props = {"p", "q"}
    /\ DOMAIN members.static_props = {"sp"}
    /\ members.constructor.elt = hist[1].inh.constructor.elt

====
